---- MODULE Spec2Model ----
(***************************************************************************)
(* Temporal range / round / truncate kernels of polars-time.               *)
(*                                                                         *)
(* Instants are integer tick counts in a time unit ("ns", "us", "ms").     *)
(* Every call returns an outcome record: Ok with a value, Err with the     *)
(* PolarsError kind, or Panic (an arithmetic or capacity panic in Rust).   *)
(***************************************************************************)
EXTENDS Integers, Sequences, FiniteSets, TLC

VARIABLES range, call

vars == <<range, call>>

\* Option<T>: None is the empty tuple, Some(x) the one-element tuple.
None == <<>>

Some(x) == <<x>>

unwrap(o) == o[1]

unwrap_or(o, d) == IF o = None THEN d ELSE unwrap(o)

\* arrow::temporal_conversions::MILLISECONDS_IN_DAY
MILLISECONDS_IN_DAY == 86400000

(***************************************************************************)
(* Bounds of the model.                                                    *)
(***************************************************************************)
MaxStart == 2
MaxEnd == 10
MaxPeriods == 3
MaxIntervalTicks == 2
MaxLen == 2

(***************************************************************************)
(* Rust integer arithmetic: `/` and `%` truncate toward zero; signum.      *)
(***************************************************************************)
Abs(x) == IF x < 0 THEN -x ELSE x

signum(x) == IF x > 0 THEN 1 ELSE IF x < 0 THEN -1 ELSE 0

TruncDiv(a, b) == IF (a >= 0) = (b >= 0) THEN Abs(a) \div Abs(b) ELSE -(Abs(a) \div Abs(b))

TruncRem(a, b) == a - b * TruncDiv(a, b)

(***************************************************************************)
(* Outcomes of a call.                                                     *)
(***************************************************************************)
Ok(v) == [kind |-> "Ok", value |-> v]

Err(e) == [kind |-> "Err", error |-> e]

Panic(why) == [kind |-> "Panic", why |-> why]

NoResult == [kind |-> "None"]

(***************************************************************************)
(* Duration: months, weeks, days, nsecs (magnitudes) and a sign flag.      *)
(* The fixed-length part is nsecs; duration_ns/us/ms convert that part to  *)
(* a flat count of ticks in the unit, by integer division.                 *)
(***************************************************************************)
TimeUnits == {"ns", "us", "ms"}

NsPerTick(tu) == IF tu = "ns" THEN 1 ELSE IF tu = "us" THEN 1000 ELSE 1000000

DurationNew(ns) == [months |-> 0, weeks |-> 0, days |-> 0, nsecs |-> Abs(ns), negative |-> ns < 0]

is_zero(d) == d.months = 0 /\ d.weeks = 0 /\ d.days = 0 /\ d.nsecs = 0

\* A day in ticks of the unit.  Days and weeks are only used at millisecond
\* unit, the unit of every Date range: a day counted in microseconds or
\* nanoseconds exceeds the integers TLC computes with.
DayTicks(tu) == MILLISECONDS_IN_DAY * (1000000 \div NsPerTick(tu))

\* The weeks and days of a duration, in ticks of the unit.
calendar_ticks(d, tu) ==
    IF d.weeks = 0 /\ d.days = 0 THEN 0 ELSE (7 * d.weeks + d.days) * DayTicks(tu)

\* duration_ns/us/ms: the flat count of the weeks, days and nanoseconds.
duration_tu(d, tu) == calendar_ticks(d, tu) + d.nsecs \div NsPerTick(tu)

\* `interval * i`: every component is scaled by i.
DurationMul(d, k) ==
    [months |-> d.months * k, weeks |-> d.weeks * k, days |-> d.days * k,
     nsecs |-> d.nsecs * k, negative |-> d.negative]

\* add_ns / add_us / add_ms for a duration with fixed-length components only:
\* the signed nanoseconds, converted to ticks, are added to the instant.
add_tu(d, t, tu) ==
    LET ns == IF d.negative THEN -d.nsecs ELSE d.nsecs
    IN  t + TruncDiv(ns, NsPerTick(tu))

(***************************************************************************)
(* Time zones.  A zone maps a UTC instant to its offset from UTC; the      *)
(* local clock reading of an instant is the instant plus that offset.      *)
(* Clock readings (NaiveDateTime) are counted in nanoseconds.  The rules   *)
(* of the one zone with daylight saving are scaled down: its offsets and   *)
(* transitions are a few milliseconds, so that columns of every time unit  *)
(* can hold instants on both sides of a transition.                        *)
(***************************************************************************)
ZoneStepNs == 1000000

StdOffsetNs == 2 * ZoneStepNs

DstOffsetNs == 4 * ZoneStepNs

\* Daylight saving starts at GapAtNs and ends at FoldAtNs (UTC).
GapAtNs == (0 - 4) * ZoneStepNs

FoldAtNs == 2 * ZoneStepNs

\* The strings chrono_tz parses.
NamedZones == {"UTC", "Europe/Amsterdam"}

\* The strings parse_offset parses.
FixedOffsets == {"+01:00"}

ZoneStrings == NamedZones \cup FixedOffsets \cup {"foo"}

utc_offset(zone, u) ==
    IF zone = "Europe/Amsterdam"
    THEN IF u >= GapAtNs /\ u < FoldAtNs THEN DstOffsetNs ELSE StdOffsetNs
    ELSE IF zone = "+01:00" THEN StdOffsetNs
    ELSE 0

ZoneOffsets(zone) == IF zone = "Europe/Amsterdam" THEN {StdOffsetNs, DstOffsetNs}
                     ELSE {utc_offset(zone, 0)}

\* TimeZone::from_utc_datetime(..).naive_local()
naive_local(zone, u) == u + utc_offset(zone, u)

\* TimeZone::from_local_datetime: the UTC instants whose local reading in
\* the zone is l; one (Single), two (Ambiguous, a fold) or none (a gap).
from_local_datetime(zone, l) ==
    {u \in {l - o : o \in ZoneOffsets(zone)} : naive_local(zone, u) = l}

SetMin(S) == CHOOSE x \in S : \A y \in S : x <= y

SetMax(S) == CHOOSE x \in S : \A y \in S : x >= y

timestamp_to_datetime(t, tu) == t * NsPerTick(tu)

\* A variant that always converts to microseconds.
datetime_to_timestampBug(ndt, tu) == ndt \div NsPerTick("us")

datetime_to_timestamp(ndt, tu) == ndt \div NsPerTick(tu)

Policies == {"raise", "null", "earliest", "latest"}

\* convert_to_naive_local: the reading of ndt in from_tz, taken as a local
\* reading in to_tz.  Its result is a datetime or an error
\* (replace_time_zone.rs:36-38 unwraps it with `?` and converts it to an
\* i64), so the policy "null" has no null to return.
convert_to_naive_local(from_tz, to_tz, ndt, ambiguous) ==
    LET local == naive_local(from_tz, ndt)
        single == from_local_datetime(to_tz, local)
        both == {local - o : o \in ZoneOffsets(to_tz)}
    IN  IF Cardinality(single) = 1 THEN Ok(SetMin(single))
        ELSE IF ambiguous = "earliest" THEN Ok(SetMin(both))
        ELSE IF ambiguous = "latest" THEN Ok(SetMax(both))
        ELSE Err("ComputeError")

(***************************************************************************)
(* Calendar arithmetic.  A day is 24 hours where no zone is involved; with *)
(* a zone, days are added to the local clock reading.                      *)
(***************************************************************************)
\* The zone's offset at instant t and the zone's offsets, in ticks.
offset_ticks(zone, t, tu) ==
    IF zone = "Europe/Amsterdam"
    THEN IF t >= GapAtNs \div NsPerTick(tu) /\ t < FoldAtNs \div NsPerTick(tu)
         THEN DstOffsetNs \div NsPerTick(tu) ELSE StdOffsetNs \div NsPerTick(tu)
    ELSE IF zone = "+01:00" THEN StdOffsetNs \div NsPerTick(tu)
    ELSE 0

\* The instants whose local reading in the zone is l, in ticks.
localize(zone, l, tu) ==
    {u \in {l - o \div NsPerTick(tu) : o \in ZoneOffsets(zone)} :
        u + offset_ticks(zone, u, tu) = l}

\* add_ns / add_us / add_ms with a zone: weeks and days are added to the
\* local clock reading, which must exist and be unambiguous; the
\* nanoseconds are added to the instant.
add_tu_tz(d, t, tu, tz) ==
    LET sign == IF d.negative THEN -1 ELSE 1
        zone == unwrap_or(tz, "UTC")
        local == t + offset_ticks(zone, t, tu) + sign * calendar_ticks(d, tu)
        us == localize(zone, local, tu)
        nsecs == TruncDiv(sign * d.nsecs, NsPerTick(tu))
    IN  IF calendar_ticks(d, tu) = 0 THEN Ok(t + nsecs)
        ELSE IF Cardinality(us) # 1 THEN Err("ComputeError")
        ELSE Ok(SetMin(us) + nsecs)

\* is_full_days: the nanoseconds are a whole number of days.
is_full_days(d) ==
    d.nsecs % 1000000 = 0 /\ (d.nsecs \div 1000000) % MILLISECONDS_IN_DAY = 0

(***************************************************************************)
(* Range generator: datetime_range_i64.                                    *)
(***************************************************************************)
ClosedWindows == {"Both", "Left", "Right", "None"}

\* A variant that starts Left at index 1.
FirstIndexBug(closed) == IF closed = "Both" THEN 0 ELSE 1

\* `let mut i = match closed { Both | Left => 0, Right | None => 1 }`
FirstIndex(closed) == IF closed \in {"Both", "Left"} THEN 0 ELSE 1

period_stopping_condition(t, i, end, periods) == i <= unwrap(periods)

end_inclusive_stopping_condition(t, i, end, periods) == t <= unwrap(end)

end_exclusive_stopping_condition(t, i, end, periods) == t < unwrap(end)

stopping_condition(closed, t, i, end, periods) ==
    IF periods # None
    THEN period_stopping_condition(t, i, end, periods)
    ELSE IF closed \in {"Both", "Right"}
         THEN end_inclusive_stopping_condition(t, i, end, periods)
         ELSE end_exclusive_stopping_condition(t, i, end, periods)

\* A variant with the comparison reversed.
EarlyReturnBug(start, end) == end # None /\ start < unwrap(end)

\* `if let Some(end) = end { if start > end { return Ok(Vec::new()) } }`
EarlyReturn(start, end) == end # None /\ start > unwrap(end)

\* polars_ensure!(!interval.negative && !interval.is_zero(), ...)
IntervalCheck(interval) == ~interval.negative /\ ~is_zero(interval)

\* The preallocation estimate: Ok(size), or the panic of `end.unwrap()` on
\* None or of an integer division by zero.
SizeEstimate(start, end, periods, interval, tu) ==
    IF periods # None THEN Ok(unwrap(periods))
    ELSE IF end = None THEN Panic("Unwrap")
    ELSE IF duration_tu(interval, tu) = 0 THEN Panic("DivZero")
    ELSE Ok(TruncDiv(unwrap(end) - start, duration_tu(interval, tu)) + 1)

Idle == [pc |-> "idle"]

Frame(start, end, periods, interval, closed, tu, tz) ==
    [pc |-> "done", start |-> start, end |-> end, periods |-> periods,
     interval |-> interval, closed |-> closed, tu |-> tu, tz |-> tz,
     size |-> 0, i |-> 0, t |-> 0, ts |-> <<>>, result |-> NoResult]

\* Lines 118-174: the checks, the size estimate, the first instant.
RangeEnter(start, end, periods, interval, closed, tu, tz) ==
    LET f == Frame(start, end, periods, interval, closed, tu, tz)
        size == SizeEstimate(start, end, periods, interval, tu)
        i0 == FirstIndex(closed)
        t == add_tu_tz(DurationMul(interval, i0), start, tu, tz)
    IN  IF EarlyReturn(start, end) THEN [f EXCEPT !.result = Ok(<<>>)]
        ELSE IF ~IntervalCheck(interval) THEN [f EXCEPT !.result = Err("ComputeError")]
        ELSE IF size.kind = "Panic" THEN [f EXCEPT !.result = size]
        ELSE IF size.value < 0 THEN [f EXCEPT !.result = Panic("CapacityOverflow")]
        ELSE IF t.kind # "Ok" THEN [f EXCEPT !.result = t]
        ELSE [f EXCEPT !.pc = "loop", !.size = size.value, !.i = i0 + 1, !.t = t.value]

Intervals ==
    { [months |-> 0, weeks |-> 0, days |-> 0, nsecs |-> n * NsPerTick(u), negative |-> neg] :
        n \in 0..MaxIntervalTicks, u \in TimeUnits, neg \in BOOLEAN }
    \cup { [months |-> 0, weeks |-> 0, days |-> 0, nsecs |-> 1500, negative |-> FALSE] }

Starts == 0..MaxStart

Ends == {None} \cup {Some(e) : e \in 0..MaxEnd}

Periods == {None} \cup {Some(n) : n \in 0..MaxPeriods}

RangeZones == {None, Some("Europe/Amsterdam")}

\* Day intervals, and the instants of the calls that use them: the epoch,
\* one day later, and the instants one day of local time apart across the
\* start of daylight saving.
DayIntervals ==
    { [months |-> 0, weeks |-> 0, days |-> n, nsecs |-> 0, negative |-> FALSE] : n \in 1..2 }

DayStarts == {0, (GapAtNs \div NsPerTick("ms")) + 3 - MILLISECONDS_IN_DAY}

DayEnds == {None, Some((GapAtNs \div NsPerTick("ms")) + 1), Some(MILLISECONDS_IN_DAY)}

\* The arguments of a call: intervals of nanoseconds in every unit, day
\* intervals at millisecond unit.
RangeCalls ==
    [start : Starts, end : Ends, periods : Periods, interval : Intervals,
     closed : ClosedWindows, tu : TimeUnits, tz : RangeZones]
    \cup [start : DayStarts, end : DayEnds, periods : Periods, interval : DayIntervals,
          closed : ClosedWindows, tu : {"ms"}, tz : RangeZones]

datetime_range_i64 ==
    /\ range.pc = "idle"
    /\ call.pc = "idle"
    /\ \E a \in RangeCalls :
         range' = RangeEnter(a.start, a.end, a.periods, a.interval, a.closed, a.tu, a.tz)
    /\ UNCHANGED call

\* Lines 175-179: one iteration of the while loop.
RangeLoop ==
    /\ range.pc = "loop"
    /\ stopping_condition(range.closed, range.t, range.i, range.end, range.periods)
    /\ LET t == add_tu_tz(DurationMul(range.interval, range.i), range.start, range.tu,
                          range.tz)
       IN  IF t.kind # "Ok"
           THEN range' = [range EXCEPT !.pc = "done", !.ts = Append(@, range.t),
                                       !.result = t]
           ELSE range' = [range EXCEPT !.ts = Append(@, range.t), !.t = t.value,
                                       !.i = @ + 1]
    /\ UNCHANGED call

\* Lines 180-181: debug_assert!(size >= ts.len()); Ok(ts).  A failing
\* debug assertion panics in a debug build and is compiled out in release.
RangeReturn ==
    /\ range.pc = "loop"
    /\ ~stopping_condition(range.closed, range.t, range.i, range.end, range.periods)
    /\ \/ range' = [range EXCEPT !.pc = "done", !.result = Ok(range.ts)]
       \/ /\ range.size < Len(range.ts)
          /\ range' = [range EXCEPT !.pc = "done", !.result = Panic("DebugAssert")]
    /\ UNCHANGED call

(***************************************************************************)
(* Date ranges: date_range and date_ranges (function_expr/range/           *)
(* date_range.rs), temporal_range_dispatch and temporal_ranges_dispatch    *)
(* (temporal.rs) on Date inputs.  A Date is a count of days; the callers   *)
(* run the range generator on milliseconds, one run per row, and cast the  *)
(* result.  `call` is the caller's frame, `range` the generator's.         *)
(***************************************************************************)
MaxDay == 2

Days == 0..MaxDay

\* Date to Datetime(tu): `start * MILLISECONDS_IN_DAY`, `&start * TO_MS`, cast.
date_to_ticks(day, tu) == IF day = 0 THEN 0 ELSE day * DayTicks(tu)

\* Datetime(ms) to Date: `out.cast(&DataType::Date)`.
ms_to_date(t) == t \div MILLISECONDS_IN_DAY

DayMs(days, ms) ==
    [months |-> 0, weeks |-> 0, days |-> days, nsecs |-> ms * 1000000, negative |-> FALSE]

\* Intervals of whole days, and intervals that are not.
FullDayIntervals == {DayMs(1, 0), DayMs(2, 0)}

PartDayIntervals == {DayMs(1, 1), DayMs(0, 1)}

SubMsIntervals == {DurationNew(1000), DurationNew(1)}

\* The dtype of the output of the dispatch functions on Date inputs
\* (temporal.rs:293-303, 407-417).
dispatch_dtype(every, time_unit) ==
    IF every.nsecs = 0 THEN [kind |-> "Date", tu |-> "ms"]
    ELSE IF time_unit # None THEN [kind |-> "Datetime", tu |-> unwrap(time_unit)]
    ELSE IF every.nsecs % 1000 # 0 THEN [kind |-> "Datetime", tu |-> "ns"]
    ELSE [kind |-> "Datetime", tu |-> "us"]

DateRangeOps ==
    {"date_range", "date_ranges", "temporal_range_dispatch", "temporal_ranges_dispatch"}

\* The caller's frame: rows are <<start day, end day>>, k is the row whose
\* range is being generated, out holds the ranges of the rows before k.
RangeCallFrame(op, rows, periods, interval, closed, dtype, tz) ==
    [pc |-> "range", op |-> op, rows |-> rows, k |-> 1, periods |-> periods,
     interval |-> interval, closed |-> closed, dtype |-> dtype, tz |-> tz,
     out |-> <<>>, result |-> NoResult]

\* The generator call of row k.
RowRange(f, k) ==
    RangeEnter(date_to_ticks(f.rows[k][1], f.dtype.tu),
               IF f.periods # None THEN None
               ELSE Some(date_to_ticks(f.rows[k][2], f.dtype.tu)),
               f.periods, f.interval, f.closed, f.dtype.tu,
               IF f.dtype.kind = "Date" THEN None ELSE f.tz)

\* The caller starts on its first row, or returns at once on no rows.
StartRows(f) ==
    IF f.rows = <<>>
    THEN call' = [f EXCEPT !.pc = "done", !.result = Ok(<<>>)] /\ UNCHANGED range
    ELSE call' = f /\ range' = RowRange(f, 1)

Failed(op, interval, result) ==
    [pc |-> "done", op |-> op, interval |-> interval, result |-> result]

\* polars_ensure!(interval.is_full_days(), ComputeError: ..) (date_range.rs:36-39, 64-67)
full_days_check(interval) == is_full_days(interval)

\* date_range (date_range.rs:12-54).
date_range ==
    /\ call.pc = "idle" /\ range.pc = "idle"
    /\ \E start \in Days, end \in Days, periods \in {None, Some(2)},
          interval \in FullDayIntervals \cup PartDayIntervals, closed \in ClosedWindows :
         IF ~full_days_check(interval)
         THEN call' = Failed("date_range", interval, Err("ComputeError")) /\ UNCHANGED range
         ELSE StartRows(RangeCallFrame("date_range", <<<<start, end>>>>, periods, interval,
                                       closed, [kind |-> "Date", tu |-> "ms"], None))

\* date_ranges (date_range.rs:56-100): one range per row.
date_ranges ==
    /\ call.pc = "idle" /\ range.pc = "idle"
    /\ \E n \in 0..MaxLen :
         \E rows \in [1..n -> Days \X Days],
            interval \in FullDayIntervals \cup PartDayIntervals, closed \in ClosedWindows :
            IF ~full_days_check(interval)
            THEN call' = Failed("date_ranges", interval, Err("ComputeError"))
                 /\ UNCHANGED range
            ELSE StartRows(RangeCallFrame("date_ranges", rows, None, interval, closed,
                                          [kind |-> "Date", tu |-> "ms"], None))

\* The (every, time_unit, days) of a dispatch call on Date inputs: sub-day
\* parts of `every` go with millisecond unit or with the epoch day.
DispatchInputs ==
    [every : FullDayIntervals, time_unit : {None, Some("ms")}, days : SUBSET Days]
    \cup [every : PartDayIntervals, time_unit : {Some("ms")}, days : {{0}}]
    \cup [every : {DayMs(1, 1)}, time_unit : {Some("ms")}, days : {Days}]
    \cup [every : SubMsIntervals, time_unit : {None, Some("us")}, days : {{0}}]

\* temporal_range_dispatch (temporal.rs:276-388) on Date inputs.
temporal_range_dispatch ==
    /\ call.pc = "idle" /\ range.pc = "idle"
    /\ \E in \in DispatchInputs, closed \in ClosedWindows, time_zone \in RangeZones :
         \E start \in in.days, stop \in in.days :
            StartRows(RangeCallFrame("temporal_range_dispatch", <<<<start, stop>>>>, None,
                                     in.every, closed,
                                     dispatch_dtype(in.every, in.time_unit), time_zone))

\* temporal_ranges_dispatch (temporal.rs:390-562) on Date inputs.
temporal_ranges_dispatch ==
    /\ call.pc = "idle" /\ range.pc = "idle"
    /\ \E in \in DispatchInputs, closed \in ClosedWindows, time_zone \in RangeZones :
         \E n \in 0..MaxLen :
            \E rows \in [1..n -> in.days \X in.days] :
               StartRows(RangeCallFrame("temporal_ranges_dispatch", rows, None, in.every,
                                        closed, dispatch_dtype(in.every, in.time_unit),
                                        time_zone))

\* The generator has returned to its caller: an error ends the call (`?`),
\* a range is cast to the output dtype and the next row is started.
RangeReturned ==
    /\ call.pc = "range" /\ range.pc = "done"
    /\ IF range.result.kind # "Ok"
       THEN call' = [call EXCEPT !.pc = "done", !.result = range.result] /\ UNCHANGED range
       ELSE LET rng == IF call.dtype.kind = "Date"
                       THEN [j \in 1..Len(range.result.value) |->
                                ms_to_date(range.result.value[j])]
                       ELSE range.result.value
                out == Append(call.out, rng)
            IN  IF call.k < Len(call.rows)
                THEN /\ call' = [call EXCEPT !.k = @ + 1, !.out = out]
                     /\ range' = RowRange(call, call.k + 1)
                ELSE /\ call' = [call EXCEPT !.pc = "done", !.out = out,
                                             !.result = Ok(IF call.op \in {"date_range", "temporal_range_dispatch"}
                                                           THEN out[1] ELSE out)]
                     /\ UNCHANGED range

InitRange == range = Idle /\ call = Idle

NextRange == datetime_range_i64 \/ RangeLoop \/ RangeReturn

SpecRange == InitRange /\ [][NextRange]_vars

NextDateRange ==
    \/ date_range \/ date_ranges \/ temporal_range_dispatch \/ temporal_ranges_dispatch
    \/ RangeLoop \/ RangeReturn \/ RangeReturned

SpecDateRange == InitRange /\ [][NextDateRange]_vars

(***************************************************************************)
(* Duration strings and Duration::parse.  A string is one <integer><unit>  *)
(* token with an optional leading minus sign; parse converts the magnitude *)
(* to nanoseconds, or to days for the unit "d", and records the sign.      *)
(***************************************************************************)
Units == {"ns", "us", "ms"}

CalendarUnits == {"d"}

DurStr(neg, n, unit) == [neg |-> neg, n |-> n, unit |-> unit]

Duration_parse(s) ==
    IF s.unit \in CalendarUnits
    THEN [months |-> 0, weeks |-> 0, days |-> s.n, nsecs |-> 0, negative |-> s.neg]
    ELSE [months |-> 0, weeks |-> 0, days |-> 0,
          nsecs |-> s.n * NsPerTick(s.unit), negative |-> s.neg]

\* The signed length of a fixed duration in ticks of the unit.
signed_tu(d, tu) == IF d.negative THEN -duration_tu(d, tu) ELSE duration_tu(d, tu)

\* is_constant_duration: no calendar component, and no time zone or a zone
\* without DST transitions.
is_constant_duration(d, time_zone) ==
    /\ d.months = 0 /\ d.weeks = 0 /\ d.days = 0
    /\ time_zone = None \/ time_zone = Some("UTC")

ensure_is_constant_duration(d, time_zone) ==
    IF is_constant_duration(d, time_zone) THEN Ok(TRUE) ELSE Err("InvalidOperation")

(***************************************************************************)
(* Window: every, period, offset.  truncate maps an instant to the start   *)
(* of its bucket, offset + floor((t - offset) / every) * every; round maps *)
(* it to the nearer of the bucket's two boundaries, a tie going to the     *)
(* boundary farther from zero.  A negative every is a ComputeError, an     *)
(* every of zero ticks an InvalidOperation.                                *)
(***************************************************************************)
Window_new(every, period, offset) == [every |-> every, period |-> period, offset |-> offset]

Window_truncate(w, t, tu) ==
    IF w.every.negative THEN Err("ComputeError")
    ELSE IF duration_tu(w.every, tu) = 0 THEN Err("InvalidOperation")
    ELSE LET e == duration_tu(w.every, tu)
             off == signed_tu(w.offset, tu)
         IN  Ok(off + ((t - off) \div e) * e)

Window_round(w, t, tu) ==
    LET lo == Window_truncate(w, t, tu)
    IN  IF lo.kind # "Ok" THEN lo
        ELSE LET e == duration_tu(w.every, tu)
                 hi == lo.value + e
             IN  IF t - lo.value < hi - t THEN lo
                 ELSE IF t - lo.value > hi - t THEN Ok(hi)
                 ELSE IF t > 0 THEN Ok(hi) ELSE lo

(***************************************************************************)
(* The columnar container: a column is a sequence of Option<i64>.          *)
(***************************************************************************)
full_null(n) == [k \in 1..n |-> None]

\* The rows' outcomes collected into one: the first failing row's outcome,
\* or the column of the rows' values.
try_collect(rows) ==
    LET bad == {k \in 1..Len(rows) : rows[k].kind # "Ok"}
    IN  IF bad # {}
        THEN rows[CHOOSE k \in bad : \A j \in bad : k <= j]
        ELSE Ok([k \in 1..Len(rows) |-> rows[k].value])

(***************************************************************************)
(* round.rs                                                                *)
(***************************************************************************)
\* A variant that adds half of `every` whatever the sign of t.
RoundHalfAwayBug(t, every) ==
    LET half == TruncDiv(every, 2)
    IN  t + half - TruncRem(t + half, every)

\* Round half-way values away from zero (round.rs:40-41, 159-160).
RoundHalfAway(t, every) ==
    LET half_away == TruncDiv(signum(t) * every, 2)
    IN  t + half_away - TruncRem(t + half_away, every)

\* A variant without the check.
NegativeEveryBug(d) == FALSE

\* `if every.negative { polars_bail!(ComputeError: ...) }`
NegativeEvery(d) == d.negative

\* apply_values with the rounding closure: the closure runs on every slot of
\* the values buffer, null or not, so a zero `every` panics on any slot.
apply_values_round(col, every) ==
    IF every = 0 /\ Len(col) > 0 THEN Panic("RemByZero")
    ELSE Ok([k \in 1..Len(col) |->
                IF col[k] = None THEN None ELSE Some(RoundHalfAway(unwrap(col[k]), every))])

\* try_apply_nonnull_values_generic / the rows of a binary elementwise op
\* with a constant right operand: null rows stay null.
RoundRow(opt_t, d, tu) ==
    IF opt_t = None THEN Ok(None)
    ELSE LET r == Window_round(Window_new(d, d, DurationNew(0)), unwrap(opt_t), tu)
         IN  IF r.kind = "Ok" THEN Ok(Some(r.value)) ELSE r

\* `(every.len() as f64).sqrt() as usize`
sqrt_floor(n) == CHOOSE r \in 0..n : r * r <= n /\ (r + 1) * (r + 1) > n

\* FastFixedCache: a cache of at most `size` entries, the oldest first.
FastFixedCache_new(size) == [size |-> size, entries |-> <<>>]

\* get_or_insert_with(key, |every| Duration::parse(every)): the cached
\* value of the key, or a parse whose result is stored, the oldest entry
\* leaving a full cache.
get_or_insert_with(cache, key) ==
    LET hit == {i \in 1..Len(cache.entries) : cache.entries[i].key = key}
        entry == [key |-> key, value |-> Duration_parse(key)]
    IN  IF hit # {}
        THEN [cache |-> cache, value |-> cache.entries[CHOOSE i \in hit : TRUE].value,
              parsed |-> <<>>]
        ELSE [cache |-> [cache EXCEPT !.entries =
                            IF cache.size = 0 THEN <<>>
                            ELSE IF Len(@) < cache.size THEN Append(@, entry)
                            ELSE Append(Tail(@), entry)],
              value |-> entry.value, parsed |-> <<key>>]

\* The per-row closure of Datetime round (round.rs:74-90) on a cache: the
\* row's outcome, the cache it leaves, the strings it parsed and the
\* duration it used.
Datetime_round_closure(duration_cache, opt_timestamp, opt_every, tu) ==
    IF opt_timestamp # None /\ opt_every # None
    THEN LET got == get_or_insert_with(duration_cache, unwrap(opt_every))
             every == got.value
         IN  [out |-> IF NegativeEvery(every) THEN Err("ComputeError")
                      ELSE RoundRow(opt_timestamp, every, tu),
              cache |-> got.cache, parsed |-> got.parsed,
              used |-> <<[every |-> unwrap(opt_every), duration |-> every]>>]
    ELSE [out |-> Ok(None), cache |-> duration_cache, parsed |-> <<>>, used |-> <<>>]

\* The outcome of the closure on one row.
Datetime_round_row(opt_timestamp, opt_every, tu) ==
    Datetime_round_closure(FastFixedCache_new(0), opt_timestamp, opt_every, tu).out

\* The state of an elementwise pass before its first row.
ScanStart(duration_cache) ==
    [cache |-> duration_cache, rows |-> <<>>, parsed |-> <<>>, used |-> <<>>]

\* The pass has stopped at a failing row.
Stopped(st) == st.rows # <<>> /\ st.rows[Len(st.rows)].kind # "Ok"

ScanStep(st, r) ==
    [cache |-> r.cache, rows |-> Append(st.rows, r.out),
     parsed |-> st.parsed \o r.parsed, used |-> st.used \o r.used]

\* broadcast_try_binary_elementwise over the rows from k on (round.rs:74-90):
\* one cache for all rows; the pass stops at the first failing row.
RECURSIVE Datetime_round_scan(_, _, _, _, _)
Datetime_round_scan(col, every, tu, k, st) ==
    IF k > Len(col) \/ Stopped(st) THEN st
    ELSE Datetime_round_scan(col, every, tu, k + 1,
             ScanStep(st, Datetime_round_closure(st.cache, col[k], every[k], tu)))

\* The general path (round.rs:65-91): the cache is created before the pass.
Datetime_round_pass(col, every, tu) ==
    Datetime_round_scan(col, every, tu, 1,
                        ScanStart(FastFixedCache_new(sqrt_floor(Len(every)))))

Datetime_round_per_row(col, every, tu) ==
    try_collect(Datetime_round_pass(col, every, tu).rows)

\* PolarsRound for DatetimeChunked (round.rs:15-93).
Datetime_round(col, every, tu, time_zone) ==
    IF Len(every) = 1
    THEN IF every[1] # None
         THEN LET every_parsed == Duration_parse(unwrap(every[1]))
              IN  IF NegativeEvery(every_parsed) THEN Err("ComputeError")
                  ELSE IF /\ time_zone = None \/ time_zone = Some("UTC")
                          /\ every_parsed.months = 0 /\ every_parsed.weeks = 0
                       THEN apply_values_round(col, duration_tu(every_parsed, tu))
                       ELSE try_collect([k \in 1..Len(col) |-> RoundRow(col[k], every_parsed, tu)])
         ELSE Ok(full_null(Len(col)))
    ELSE Datetime_round_per_row(col, every, tu)

\* A Date is a day count; it is rounded in milliseconds and converted back.
DateRoundRow(opt_t, d) ==
    IF opt_t = None THEN Ok(None)
    ELSE LET r == Window_round(Window_new(d, d, DurationNew(0)),
                               MILLISECONDS_IN_DAY * unwrap(opt_t), "ms")
         IN  IF r.kind = "Ok" THEN Ok(Some(TruncDiv(r.value, MILLISECONDS_IN_DAY))) ELSE r

\* The per-row closure of Date round (round.rs:116-136): the cache is
\* created inside the closure, on every row.
Date_round_closure(len, opt_t, opt_every) ==
    LET duration_cache == FastFixedCache_new(sqrt_floor(len))
    IN  IF opt_t # None /\ opt_every # None
        THEN LET got == get_or_insert_with(duration_cache, unwrap(opt_every))
                 every == got.value
             IN  [out |-> IF NegativeEvery(every) THEN Err("ComputeError")
                          ELSE DateRoundRow(opt_t, every),
                  cache |-> got.cache, parsed |-> got.parsed,
                  used |-> <<[every |-> unwrap(opt_every), duration |-> every]>>]
        ELSE [out |-> Ok(None), cache |-> duration_cache, parsed |-> <<>>, used |-> <<>>]

\* The outcome of the closure on one row.
Date_round_row(opt_t, opt_every) == Date_round_closure(0, opt_t, opt_every).out

RECURSIVE Date_round_scan(_, _, _, _)
Date_round_scan(col, every, k, st) ==
    IF k > Len(col) \/ Stopped(st) THEN st
    ELSE Date_round_scan(col, every, k + 1,
             ScanStep(st, Date_round_closure(Len(every), col[k], every[k])))

Date_round_pass(col, every) ==
    Date_round_scan(col, every, 1, ScanStart(FastFixedCache_new(0)))

\* PolarsRound for DateChunked (round.rs:95-140).
Date_round(col, every) ==
    IF Len(every) = 1
    THEN IF every[1] # None
         THEN LET d == Duration_parse(unwrap(every[1]))
              IN  IF NegativeEvery(d) THEN Err("ComputeError")
                  ELSE try_collect([k \in 1..Len(col) |-> DateRoundRow(col[k], d)])
         ELSE Ok(full_null(Len(col)))
    ELSE try_collect(Date_round_pass(col, every).rows)

\* PolarsRound for DurationChunked (round.rs:143-165): `every` is used as a
\* Duration value.
Duration_round(col, every, tu) ==
    IF NegativeEvery(every) THEN Err("ComputeError")
    ELSE IF ensure_is_constant_duration(every, None).kind # "Ok"
         THEN ensure_is_constant_duration(every, None)
    ELSE IF duration_tu(every, tu) = 0 THEN Err("InvalidOperation")
    ELSE apply_values_round(col, duration_tu(every, tu))

(***************************************************************************)
(* truncate.rs                                                             *)
(***************************************************************************)
TruncateRow(opt_t, every, offset, tu) ==
    IF opt_t = None THEN Ok(None)
    ELSE LET r == Window_truncate(Window_new(every, every, offset), unwrap(opt_t), tu)
         IN  IF r.kind = "Ok" THEN Ok(Some(r.value)) ELSE r

\* The per-row closure of Datetime truncate (truncate.rs:39-52).
Datetime_truncate_row(opt_timestamp, opt_every, offset, tu) ==
    IF opt_timestamp # None /\ opt_every # None
    THEN LET every == Duration_parse(unwrap(opt_every))
         IN  IF NegativeEvery(every) THEN Err("ComputeError")
             ELSE TruncateRow(opt_timestamp, every, offset, tu)
    ELSE Ok(None)

\* A variant that keeps the rows that were computed and makes a failing
\* row null.
Datetime_truncateBug(col, every, offset_str, tu) ==
    LET rows == [k \in 1..Len(col) |->
                    Datetime_truncate_row(col[k], every[IF Len(every) = 1 THEN 1 ELSE k],
                                          Duration_parse(offset_str), tu)]
    IN  Ok([k \in 1..Len(col) |-> IF rows[k].kind = "Ok" THEN rows[k].value ELSE None])

\* PolarsTruncate for DatetimeChunked (truncate.rs:14-56).
Datetime_truncate(col, every, offset_str, tu) ==
    LET offset == Duration_parse(offset_str)
    IN  IF Len(every) = 1
        THEN IF every[1] # None
             THEN LET d == Duration_parse(unwrap(every[1]))
                  IN  IF NegativeEvery(d) THEN Err("ComputeError")
                      ELSE try_collect([k \in 1..Len(col) |-> TruncateRow(col[k], d, offset, tu)])
             ELSE Ok(full_null(Len(col)))
        ELSE try_collect([k \in 1..Len(col) |->
                             Datetime_truncate_row(col[k], every[k], offset, tu)])

DateTruncateRow(opt_t, every, offset) ==
    IF opt_t = None THEN Ok(None)
    ELSE LET r == Window_truncate(Window_new(every, every, offset),
                                  MILLISECONDS_IN_DAY * unwrap(opt_t), "ms")
         IN  IF r.kind = "Ok" THEN Ok(Some(TruncDiv(r.value, MILLISECONDS_IN_DAY))) ELSE r

Date_truncate_row(opt_t, opt_every, offset) ==
    IF opt_t # None /\ opt_every # None
    THEN LET every == Duration_parse(unwrap(opt_every))
         IN  IF NegativeEvery(every) THEN Err("ComputeError")
             ELSE DateTruncateRow(opt_t, every, offset)
    ELSE Ok(None)

\* PolarsTruncate for DateChunked (truncate.rs:58-103).
Date_truncate(col, every, offset_str) ==
    LET offset == Duration_parse(offset_str)
    IN  IF Len(every) = 1
        THEN IF every[1] # None
             THEN LET d == Duration_parse(unwrap(every[1]))
                  IN  IF NegativeEvery(d) THEN Err("ComputeError")
                      ELSE try_collect([k \in 1..Len(col) |-> DateTruncateRow(col[k], d, offset)])
             ELSE Ok(full_null(Len(col)))
        ELSE try_collect([k \in 1..Len(col) |-> Date_truncate_row(col[k], every[k], offset)])

\* `duration - duration % every_units` (truncate.rs:140, 160).
TruncateRem(duration, every_units) == duration - TruncRem(duration, every_units)

\* apply_values with the truncating closure (truncate.rs:138-140).
apply_values_truncate(col, every_units) ==
    IF every_units = 0 /\ Len(col) > 0 THEN Panic("RemByZero")
    ELSE Ok([k \in 1..Len(col) |->
                IF col[k] = None THEN None
                ELSE Some(TruncateRem(unwrap(col[k]), every_units))])

\* The checks on `every` of Duration truncate (truncate.rs:125-136, 147-158):
\* Ok(every_units) or the error.
DurationEveryUnits(every_str, tu, time_zone) ==
    LET every_duration == Duration_parse(every_str)
    IN  IF NegativeEvery(every_duration) THEN Err("ComputeError")
        ELSE IF ensure_is_constant_duration(every_duration, time_zone).kind # "Ok"
             THEN ensure_is_constant_duration(every_duration, time_zone)
        ELSE IF duration_tu(every_duration, tu) = 0 THEN Err("InvalidOperation")
        ELSE Ok(duration_tu(every_duration, tu))

Duration_truncate_row(opt_duration, opt_every, tu, time_zone) ==
    IF opt_duration # None /\ opt_every # None
    THEN LET u == DurationEveryUnits(unwrap(opt_every), tu, time_zone)
         IN  IF u.kind # "Ok" THEN u
             ELSE Ok(Some(TruncateRem(unwrap(opt_duration), u.value)))
    ELSE Ok(None)

\* A variant without the check of `offset`.
Duration_truncateBug(col, every, offset_str, tu, time_zone) ==
    IF Len(every) = 1
    THEN IF every[1] # None
         THEN LET u == DurationEveryUnits(unwrap(every[1]), tu, time_zone)
              IN  IF u.kind # "Ok" THEN u
                  ELSE apply_values_truncate(col, u.value)
         ELSE Ok(full_null(Len(col)))
    ELSE try_collect([k \in 1..Len(col) |->
                         Duration_truncate_row(col[k], every[k], tu, time_zone)])

\* PolarsTruncate for DurationChunked (truncate.rs:106-168).
Duration_truncate(col, every, offset_str, tu, time_zone) ==
    IF ~is_zero(Duration_parse(offset_str)) THEN Err("InvalidOperation")
    ELSE IF Len(every) = 1
         THEN IF every[1] # None
              THEN LET u == DurationEveryUnits(unwrap(every[1]), tu, time_zone)
                   IN  IF u.kind # "Ok" THEN u
                       ELSE apply_values_truncate(col, u.value)
              ELSE Ok(full_null(Len(col)))
         ELSE try_collect([k \in 1..Len(col) |->
                              Duration_truncate_row(col[k], every[k], tu, time_zone)])

(***************************************************************************)
(* Calls of round and truncate.  A call with a length-1 `every` draws its  *)
(* column and its duration string from the full input sets; a call with a  *)
(* per-row `every` column draws its rows from RowInstants and RowEvery.    *)
(***************************************************************************)
MaxT == 5
MaxN == 3

Instants == (-MaxT)..MaxT

OptInstants == {None} \cup {Some(t) : t \in Instants}

Magnitudes == (0..MaxN) \cup {10}

EveryStrings == {DurStr(neg, n, u) : neg \in BOOLEAN, n \in Magnitudes, u \in Units}

OptEvery == {None} \cup {Some(e) : e \in EveryStrings}

RowInstants == {None, Some(-1), Some(1)}

RowEvery ==
    {None, Some(DurStr(FALSE, 1, "ns")), Some(DurStr(FALSE, 0, "ns")),
     Some(DurStr(TRUE, 1, "ns")), Some(DurStr(FALSE, 2, "us")), Some(DurStr(FALSE, 2, "ms"))}

OffsetStrings == {DurStr(FALSE, 0, "ns"), DurStr(FALSE, 1, "ns"), DurStr(TRUE, 1, "ms")}

TimeZones == {None, Some("UTC"), Some("Europe/Amsterdam")}

\* The (column, every) pairs of a call.
ColumnInputs ==
    {<<col, every>> : col \in UNION {[1..n -> OptInstants] : n \in 0..MaxLen},
                       every \in [1..1 -> OptEvery]}
    \cup UNION {{<<col, every>> : col \in [1..n -> RowInstants], every \in [1..n -> RowEvery]} :
                   n \in (0..MaxLen) \ {1}}

\* Calendar `every` strings of a call on a Duration column.
DayEvery == {Some(DurStr(neg, 1, "d")) : neg \in BOOLEAN}

RowDayEvery == DayEvery \cup {None, Some(DurStr(FALSE, 1, "ns"))}

\* The (column, every) pairs of a call on a Duration column.
DurationColumnInputs ==
    ColumnInputs
    \cup UNION {{<<col, every>> : col \in [1..n -> RowInstants],
                                  every \in [1..1 -> DayEvery]
                                            \cup (IF n = 1 THEN {} ELSE [1..n -> RowDayEvery])} :
                   n \in 0..MaxLen}

CallFrame(op, col, every, offset, tu, time_zone, result) ==
    [pc |-> "done", op |-> op, col |-> col, every |-> every, offset |-> offset,
     tu |-> tu, time_zone |-> time_zone, result |-> result]

ZeroOffset == DurStr(FALSE, 0, "ns")

\* The strings handed to Duration::parse during a round call and the
\* durations its rows used: those of the pass on the per-row path, the one
\* parse of a non-null length-1 `every` otherwise.
ParseLog(pass, every) ==
    IF Len(every) # 1 THEN [parsed |-> pass.parsed, used |-> pass.used]
    ELSE IF every[1] = None THEN [parsed |-> <<>>, used |-> <<>>]
    ELSE [parsed |-> <<unwrap(every[1])>>,
          used |-> <<[every |-> unwrap(every[1]),
                      duration |-> Duration_parse(unwrap(every[1]))]>>]

CallDatetimeRound ==
    /\ call.pc = "idle"
    /\ \E in \in ColumnInputs, tu \in TimeUnits, time_zone \in TimeZones :
         call' = CallFrame("Datetime_round", in[1], in[2], ZeroOffset, tu, time_zone,
                           Datetime_round(in[1], in[2], tu, time_zone))
                 @@ ParseLog(Datetime_round_pass(in[1], in[2], tu), in[2])
    /\ UNCHANGED range

CallDateRound ==
    /\ call.pc = "idle"
    /\ \E in \in ColumnInputs :
         call' = CallFrame("Date_round", in[1], in[2], ZeroOffset, "ms", None,
                           Date_round(in[1], in[2]))
                 @@ ParseLog(Date_round_pass(in[1], in[2]), in[2])
    /\ UNCHANGED range

CallDurationRound ==
    /\ call.pc = "idle"
    /\ \E in \in DurationColumnInputs, tu \in TimeUnits :
         /\ Len(in[2]) = 1 /\ in[2][1] # None
         /\ call' = CallFrame("Duration_round", in[1], in[2], ZeroOffset, tu, None,
                              Duration_round(in[1], Duration_parse(unwrap(in[2][1])), tu))
    /\ UNCHANGED range

CallDatetimeTruncate ==
    /\ call.pc = "idle"
    /\ \E in \in ColumnInputs, offset \in OffsetStrings, tu \in TimeUnits :
         call' = CallFrame("Datetime_truncate", in[1], in[2], offset, tu, None,
                           Datetime_truncate(in[1], in[2], offset, tu))
    /\ UNCHANGED range

CallDateTruncate ==
    /\ call.pc = "idle"
    /\ \E in \in ColumnInputs, offset \in OffsetStrings :
         call' = CallFrame("Date_truncate", in[1], in[2], offset, "ms", None,
                           Date_truncate(in[1], in[2], offset))
    /\ UNCHANGED range

\* The offsets and zones of a truncate call on a Duration column: a zero
\* and a non-zero offset, no zone and a zone with daylight saving.
DurationOffsets == {ZeroOffset, DurStr(FALSE, 1, "ns")}

DurationZones == {None, Some("Europe/Amsterdam")}

CallDurationTruncate ==
    /\ call.pc = "idle"
    /\ \E in \in DurationColumnInputs, offset \in DurationOffsets, tu \in TimeUnits,
          time_zone \in DurationZones :
         call' = CallFrame("Duration_truncate", in[1], in[2], offset, tu, time_zone,
                           Duration_truncate(in[1], in[2], offset, tu, time_zone))
    /\ UNCHANGED range

InitRound == range = Idle /\ call = Idle

NextRound ==
    \/ CallDatetimeRound \/ CallDateRound \/ CallDurationRound
    \/ CallDatetimeTruncate \/ CallDateTruncate \/ CallDurationTruncate

SpecRound == InitRound /\ [][NextRound]_vars

(***************************************************************************)
(* temporal.rs: date_offset on a Datetime column.                          *)
(*                                                                         *)
(* An Arrow array is a values buffer with a validity bitmap: a slot is     *)
(* [valid, v], and a null slot still holds some value v in the buffer.     *)
(***************************************************************************)
Slot(valid, v) == [valid |-> valid, v |-> v]

\* The Option view of a slot (ChunkedArray::get, iteration with nulls).
opt(slot) == IF slot.valid THEN Some(slot.v) ELSE None

\* A string that is no duration expression; Duration::parse returns a
\* Duration, not a Result, so it can only panic on it.
Malformed == DurStr(FALSE, 0, "??")

is_malformed(s) == s.unit \notin Units \cup CalendarUnits

\* `let offset_fn = match tu { Nanoseconds => add_ns, ... }` (temporal.rs:156-160),
\* called with `tz_args.as_ref()`.
offset_fn(d, t, tu, tz) == add_tu_tz(d, t, tu, tz)

\* One element of compute_kernel2 / my_fn: `Duration::parse(r)` then
\* `Duration::add_us(&offset, *l, None)`, whatever the column's unit.
compute_kernel2_value(l, r) ==
    IF is_malformed(r) THEN Panic("ParseError")
    ELSE add_tu_tz(Duration_parse(r), l, "us", None)

\* compute_kernel2 (temporal.rs:120-136): the validity is the AND of both
\* validities; the values are computed from the values buffers of every
\* slot, null or not.
compute_kernel2(arr_1, arr_2) ==
    LET rows == [k \in 1..Len(arr_1) |-> compute_kernel2_value(arr_1[k].v, arr_2[k].v)]
        values == try_collect(rows)
    IN  IF values.kind # "Ok" THEN values
        ELSE Ok([k \in 1..Len(arr_1) |->
                    IF arr_1[k].valid /\ arr_2[k].valid THEN Some(values.value[k]) ELSE None])

\* The length-1 branch (temporal.rs:169-175): a null offset is Duration::new(0);
\* try_apply keeps null rows null and returns the first row's error.
date_offset_row(offset, slot, tu, tz) ==
    IF ~slot.valid THEN Ok(None)
    ELSE LET r == offset_fn(offset, slot.v, tu, tz)
         IN  IF r.kind = "Ok" THEN Ok(Some(r.value)) ELSE r

date_offset_single(ca, offsets, tu, tz) ==
    IF offsets[1].valid /\ is_malformed(offsets[1].v) THEN Panic("ParseError")
    ELSE LET offset == IF offsets[1].valid THEN Duration_parse(offsets[1].v)
                       ELSE DurationNew(0)
         IN  try_collect([k \in 1..Len(ca) |-> date_offset_row(offset, ca[k], tu, tz)])

\* preserve_sortedness (temporal.rs:222-231).
preserve_sortedness(offsets, tz) ==
    IF Len(offsets) = 1
    THEN LET offset == IF offsets[1].valid THEN Duration_parse(offsets[1].v)
                       ELSE DurationNew(0)
         IN  tz = None \/ tz = Some("UTC") \/ is_constant_duration(offset, None)
    ELSE FALSE

\* date_offset on DataType::Datetime(tu, tz) (temporal.rs:152-246): Ok of
\* the output values and its sorted flag.
date_offset(ca, offsets, tu, tz, sorted) ==
    LET out == IF Len(offsets) = 1 THEN date_offset_single(ca, offsets, tu, tz)
               ELSE compute_kernel2(ca, offsets)
    IN  IF out.kind # "Ok" THEN out
        ELSE Ok([values |-> out.value,
                 sorted |-> IF preserve_sortedness(offsets, tz) THEN sorted ELSE "Not"])

\* date_offset on DataType::Date (temporal.rs:145-151, 238-246): the column
\* is cast to Datetime(Milliseconds, None), offset as a Datetime column and
\* cast back; preserve_sortedness is set to true.
date_offset_date(sa, offsets, sorted) ==
    LET ms == [k \in 1..Len(sa) |-> Slot(sa[k].valid, date_to_ticks(sa[k].v, "ms"))]
        out == date_offset(ms, offsets, "ms", None, sorted)
    IN  IF out.kind # "Ok" THEN out
        ELSE Ok([values |-> [k \in 1..Len(sa) |->
                                IF out.value.values[k] = None THEN None
                                ELSE Some(ms_to_date(unwrap(out.value.values[k])))],
                 sorted |-> sorted])

IsSortedFlags == {"Ascending", "Descending", "Not"}

\* The non-null values of a column of Options, in order.
RECURSIVE NonNull(_)
NonNull(col) ==
    IF col = <<>> THEN <<>>
    ELSE IF Head(col) = None THEN NonNull(Tail(col))
    ELSE <<unwrap(Head(col))>> \o NonNull(Tail(col))

Ascending(col) == LET s == NonNull(col) IN \A k \in 1..(Len(s) - 1) : s[k] <= s[k + 1]

Descending(col) == LET s == NonNull(col) IN \A k \in 1..(Len(s) - 1) : s[k] >= s[k + 1]

\* The flags a column may truthfully carry.
TruthfulFlags(col) ==
    {"Not"} \cup (IF Ascending(col) THEN {"Ascending"} ELSE {})
            \cup (IF Descending(col) THEN {"Descending"} ELSE {})

InstantSlots == {Slot(TRUE, t) : t \in {-1, 1, 2}} \cup {Slot(FALSE, 0)}

OffsetSlots ==
    {Slot(TRUE, s) : s \in {DurStr(FALSE, 1, "us"), DurStr(FALSE, 2, "ms"),
                            DurStr(TRUE, 1, "ns"), DurStr(FALSE, 0, "ns")}}
    \cup {Slot(FALSE, Malformed), Slot(FALSE, DurStr(FALSE, 1, "us"))}

\* The (column, offsets) pairs of a date_offset call: a length-1 offsets
\* column, or one of the column's length.
DateOffsetInputs ==
    UNION {{<<ca, offsets>> : ca \in [1..n -> InstantSlots],
                              offsets \in [1..1 -> OffsetSlots] \cup [1..n -> OffsetSlots]} :
              n \in 0..MaxLen}

\* Calendar offsets: one day forward or backward, on millisecond instants
\* one day before the gap, at the epoch and one day after the fold.
DayOffsetSlots == {Slot(TRUE, DurStr(neg, 1, "d")) : neg \in BOOLEAN}

DayInstantSlots ==
    {Slot(TRUE, t) : t \in {(GapAtNs \div NsPerTick("ms")) + 1 - MILLISECONDS_IN_DAY, 0,
                            (FoldAtNs \div NsPerTick("ms")) + MILLISECONDS_IN_DAY}}
    \cup {Slot(FALSE, 0)}

\* The (column, offsets, unit) triples of a date_offset call on a Datetime
\* column: a calendar offset is a length-1 offsets column on a millisecond
\* column.
DatetimeOffsetInputs ==
    {<<in[1], in[2], tu>> : in \in DateOffsetInputs, tu \in TimeUnits}
    \cup UNION {{<<ca, offsets, "ms">> : ca \in [1..n -> DayInstantSlots],
                                         offsets \in [1..1 -> DayOffsetSlots]} :
                   n \in 0..MaxLen}

DateSlots == {Slot(TRUE, d) : d \in {0, 1}} \cup {Slot(FALSE, 0)}

\* The (column, offsets) pairs of a date_offset call on a Date column.
DateColumnOffsetInputs ==
    UNION {{<<sa, offsets>> : sa \in [1..n -> DateSlots],
                              offsets \in [1..1 -> OffsetSlots \cup DayOffsetSlots]
                                          \cup [1..n -> OffsetSlots]} :
              n \in 0..MaxLen}

OffsetFrame(dtype, ca, offsets, tu, tz, sorted, result) ==
    [pc |-> "done", op |-> "date_offset", dtype |-> dtype, ca |-> ca, offsets |-> offsets,
     tu |-> tu, time_zone |-> tz, sorted |-> sorted, result |-> result]

CallDateOffset ==
    /\ call.pc = "idle"
    /\ \E in \in DatetimeOffsetInputs, tz \in TimeZones :
         \E sorted \in TruthfulFlags([k \in 1..Len(in[1]) |-> opt(in[1][k])]) :
            call' = OffsetFrame("Datetime", in[1], in[2], in[3], tz, sorted,
                                date_offset(in[1], in[2], in[3], tz, sorted))
    /\ UNCHANGED range

CallDateOffsetDate ==
    /\ call.pc = "idle"
    /\ \E in \in DateColumnOffsetInputs :
         \E sorted \in TruthfulFlags([k \in 1..Len(in[1]) |-> opt(in[1][k])]) :
            call' = OffsetFrame("Date", in[1], in[2], "ms", None, sorted,
                                date_offset_date(in[1], in[2], sorted))
    /\ UNCHANGED range

NextOffset == CallDateOffset \/ CallDateOffsetDate

SpecOffset == InitRound /\ [][NextOffset]_vars

(***************************************************************************)
(* replace_time_zone.rs                                                    *)
(***************************************************************************)
ErrWith(e, s) == [kind |-> "Err", error |-> e, msg |-> s]

\* A variant that accepts every string.
parse_time_zoneBug(s) == Ok(s)

\* parse_time_zone (replace_time_zone.rs:10-13).
parse_time_zone(s) ==
    IF s \in NamedZones THEN Ok(s) ELSE ErrWith("ComputeError", s)

\* The element closure of both paths (replace_time_zone.rs:34-38, 43-48).
replace_value(from_tz, to_tz, timestamp, ambiguous, tu) ==
    LET ndt == convert_to_naive_local(from_tz, to_tz,
                                      timestamp_to_datetime(timestamp, tu), ambiguous)
    IN  IF ndt.kind # "Ok" THEN ndt
        ELSE Ok(Some(datetime_to_timestamp(ndt.value, tu)))

\* A variant that leaves the column as it is.
apply_noneBug(datetime) == datetime

\* `datetime.0.apply(|_| None)` (replace_time_zone.rs:39-40).
apply_none(datetime) == full_null(Len(datetime))

\* `out.set_sorted_flag(datetime.is_sorted_flag())` (replace_time_zone.rs:52).
out_sorted_flag(sorted) == sorted

\* replace_time_zone (replace_time_zone.rs:15-54) on a column of unit tu in
\* zone tz: Ok of the output values, zone and sorted flag.
replace_time_zone(datetime, tu, tz, time_zone, ambiguous, sorted) ==
    LET from_tz == parse_time_zone(unwrap_or(tz, "UTC"))
        to_tz == parse_time_zone(unwrap_or(time_zone, "UTC"))
        n == Len(datetime)
        out == IF Len(ambiguous) = 1
               THEN IF ambiguous[1] = None THEN Ok(apply_none(datetime))
                    ELSE try_collect([k \in 1..n |->
                            IF datetime[k] = None THEN Ok(None)
                            ELSE replace_value(from_tz.value, to_tz.value,
                                               unwrap(datetime[k]), unwrap(ambiguous[1]), tu)])
               ELSE try_collect([k \in 1..n |->
                            IF datetime[k] = None \/ ambiguous[k] = None THEN Ok(None)
                            ELSE replace_value(from_tz.value, to_tz.value,
                                               unwrap(datetime[k]), unwrap(ambiguous[k]), tu)])
    IN  IF from_tz.kind # "Ok" THEN from_tz
        ELSE IF to_tz.kind # "Ok" THEN to_tz
        ELSE IF out.kind # "Ok" THEN out
        ELSE Ok([values |-> out.value, time_zone |-> time_zone,
                 sorted |-> out_sorted_flag(sorted)])

\* The instants of the input columns, in steps of ZoneStepNs: before,
\* inside and after the daylight saving period.
ZoneSteps == {0 - 2, 0, 1, 2, 4}

ZoneInstants(tu) == {k * (ZoneStepNs \div NsPerTick(tu)) : k \in ZoneSteps}

ZoneColumns(tu) ==
    UNION {[1..n -> {None} \cup {Some(t) : t \in ZoneInstants(tu)}] : n \in 0..MaxLen}

ScalarPolicies == {<<None>>} \cup {<<Some(p)>> : p \in Policies}

RowPolicies == {None, Some("raise"), Some("null"), Some("earliest")}

\* The `ambiguous` columns of a call on a column of n rows.
AmbiguousColumns(n) ==
    ScalarPolicies \cup (IF n = 1 THEN {} ELSE [1..n -> RowPolicies])

ColumnZones == {None, Some("Europe/Amsterdam"), Some("foo")}

TargetZones == {None, Some("UTC"), Some("Europe/Amsterdam"), Some("foo")}

ZoneFrame(datetime, tu, tz, time_zone, ambiguous, sorted, result) ==
    [pc |-> "done", op |-> "replace_time_zone", col |-> datetime, tu |-> tu,
     tz |-> tz, time_zone |-> time_zone, ambiguous |-> ambiguous, sorted |-> sorted,
     result |-> result]

CallReplaceTimeZone ==
    /\ call.pc = "idle"
    /\ \E tu \in TimeUnits, tz \in ColumnZones, time_zone \in TargetZones :
         \E datetime \in ZoneColumns(tu) :
            \E ambiguous \in AmbiguousColumns(Len(datetime)),
               sorted \in TruthfulFlags(datetime) \ {"Descending"} :
               call' = ZoneFrame(datetime, tu, tz, time_zone, ambiguous, sorted,
                                 replace_time_zone(datetime, tu, tz, time_zone,
                                                   ambiguous, sorted))
    /\ UNCHANGED range

NextZone == CallReplaceTimeZone

SpecZone == InitRound /\ [][NextZone]_vars

\* Calls of round, truncate and replace_time_zone together.
NextNullParam == NextRound \/ NextZone

SpecNullParam == InitRound /\ [][NextNullParam]_vars

(***************************************************************************)
(* temporal.rs: datetime(), a Datetime column built from seven component   *)
(* columns: year, month, day, hour, minute, second, microsecond.           *)
(***************************************************************************)
is_leap_year(y) == y % 4 = 0 /\ (y % 100 # 0 \/ y % 400 = 0)

days_in_month(y, m) ==
    IF m = 2 THEN (IF is_leap_year(y) THEN 29 ELSE 28)
    ELSE IF m \in {4, 6, 9, 11} THEN 30 ELSE 31

RECURSIVE days_before_month(_, _)
days_before_month(y, m) ==
    IF m = 1 THEN 0 ELSE days_before_month(y, m - 1) + days_in_month(y, m - 1)

\* The days from 1970-01-01 to the first day of year y.
days_before_year(y) ==
    365 * (y - 1970) + ((y - 1969) \div 4) - ((y - 1901) \div 100) + ((y - 1601) \div 400)

\* NaiveDate::from_ymd_opt: the day count of a valid civil date, or None.
from_ymd_opt(y, m, d) ==
    IF m \in 1..12 /\ d >= 1 /\ d <= days_in_month(y, m)
    THEN Some(days_before_year(y) + days_before_month(y, m) + d - 1)
    ELSE None

\* NaiveDate::and_hms_micro_opt: the date with a valid time of day, or
\* None; a microsecond count of a second or more denotes a leap second.
and_hms_micro_opt(nd, h, mnt, sec, us) ==
    IF h < 24 /\ mnt < 60 /\ sec < 60 /\ us < 2000000
    THEN Some([days |-> nd, secs |-> h * 3600 + mnt * 60 + sec, us |-> us])
    ELSE None

\* timestamp_millis / timestamp_micros / timestamp_nanos.
ndt_timestamp(ndt, tu) ==
    date_to_ticks(ndt.days, tu) + ndt.secs * (1000000000 \div NsPerTick(tu))
        + (ndt.us * 1000) \div NsPerTick(tu)

\* The closure of the zipped iterator (temporal.rs:80-94): a row with a
\* null component is null; otherwise the row is the timestamp of the civil
\* date-time, or null when the components form none.
datetime_row(row, time_unit) ==
    IF \A c \in 1..7 : row[c] # None
    THEN LET nd == from_ymd_opt(unwrap(row[1]), unwrap(row[2]), unwrap(row[3]))
             ndt == IF nd = None THEN None
                    ELSE and_hms_micro_opt(unwrap(nd), unwrap(row[4]), unwrap(row[5]),
                                           unwrap(row[6]), unwrap(row[7]))
         IN  IF ndt = None THEN None ELSE Some(ndt_timestamp(unwrap(ndt), time_unit))
    ELSE None

\* `if column.len() < max_len { column = column.new_from_index(0, max_len) }`
broadcast(column, max_len) ==
    IF Len(column) < max_len THEN [k \in 1..max_len |-> column[1]] ELSE column

\* The policy of replace_time_zone(&ca, time_zone, use_earliest).
use_earliest_policy(use_earliest) ==
    IF use_earliest = None THEN "raise"
    ELSE IF unwrap(use_earliest) THEN "earliest" ELSE "latest"

SeqMax(lens) == CHOOSE n \in lens : \A m \in lens : m <= n

\* datetime (temporal.rs:11-116): Ok of the output values and zone.
datetime(s, time_unit, time_zone, use_earliest) ==
    LET max_len == SeqMax({Len(s[c]) : c \in 1..7})
        cols == [c \in 1..7 |-> broadcast(s[c], max_len)]
        ca == [k \in 1..max_len |->
                 datetime_row([c \in 1..7 |-> cols[c][k]], time_unit)]
    IN  IF time_zone = None THEN Ok([values |-> ca, time_zone |-> None])
        ELSE LET out == replace_time_zone(ca, time_unit, None, time_zone,
                                          <<Some(use_earliest_policy(use_earliest))>>, "Not")
             IN  IF out.kind # "Ok" THEN out
                 ELSE Ok([values |-> out.value.values, time_zone |-> time_zone])

\* The component rows of the input columns: valid civil date-times, rows
\* with a component out of range, and rows with a null component.  The
\* second day of 1970 is representable in naive milliseconds only.
Midnight == <<Some(1970), Some(1), Some(1), Some(0), Some(0), Some(0), Some(0)>>

ValidRows(time_unit, time_zone) ==
    {Midnight, [Midnight EXCEPT ![6] = Some(1), ![7] = Some(1)]}
    \cup (IF time_unit = "ms" /\ time_zone = None
          THEN {[Midnight EXCEPT ![3] = Some(2)]} ELSE {})

OutOfRangeRows ==
    {[Midnight EXCEPT ![2] = Some(13)], [Midnight EXCEPT ![2] = Some(2), ![3] = Some(30)],
     [Midnight EXCEPT ![4] = Some(24)], [Midnight EXCEPT ![5] = Some(60)],
     [Midnight EXCEPT ![6] = Some(60)]}

NullRows == {[Midnight EXCEPT ![1] = None], [Midnight EXCEPT ![2] = Some(13), ![3] = None]}

ComponentRows(time_unit, time_zone) ==
    ValidRows(time_unit, time_zone) \cup OutOfRangeRows \cup NullRows

\* The seven columns of a sequence of rows.
Unzip(rows) == [c \in 1..7 |-> [k \in 1..Len(rows) |-> rows[k][c]]]

\* The inputs of a call: seven columns of one length, or with a
\* microsecond column of length 1 that is broadcast.
DatetimeInputs(time_unit, time_zone) ==
    LET full == {Unzip(rows) : rows \in UNION {[1..n -> ComponentRows(time_unit, time_zone)] :
                                                  n \in 1..MaxLen}}
    IN  full \cup {[s EXCEPT ![7] = <<s[7][1]>>] : s \in full}

DatetimeFrame(s, time_unit, time_zone, use_earliest, result) ==
    [pc |-> "done", op |-> "datetime", s |-> s, tu |-> time_unit, time_zone |-> time_zone,
     use_earliest |-> use_earliest, result |-> result]

CallDatetime ==
    /\ call.pc = "idle"
    /\ \E time_unit \in TimeUnits, time_zone \in {None, Some("Europe/Amsterdam")},
          use_earliest \in {None, Some(TRUE), Some(FALSE)} :
         \E s \in DatetimeInputs(time_unit, time_zone) :
            call' = DatetimeFrame(s, time_unit, time_zone, use_earliest,
                                  datetime(s, time_unit, time_zone, use_earliest))
    /\ UNCHANGED range

NextDatetime == CallDatetime

SpecDatetime == InitRound /\ [][NextDatetime]_vars

\* Calls of round and truncate on Datetime and Date columns, of
\* replace_time_zone and of date_offset together.
NextFailFast ==
    \/ CallDatetimeRound \/ CallDateRound \/ CallDatetimeTruncate \/ CallDateTruncate
    \/ NextZone \/ NextOffset

SpecFailFast == InitRound /\ [][NextFailFast]_vars

(***************************************************************************)
(* kernels/time.rs: cast_timezone.  The kernel returns an array, not a     *)
(* Result: its outcome is Ok of the output array or a panic.               *)
(***************************************************************************)
\* `from.parse::<chrono_tz::Tz>()`, else `parse_offset(&from)`.
parses_as_zone(s) == s \in NamedZones \/ s \in FixedOffsets

\* `.naive_local().timestamp_millis()` / `timestamp_micros()` / `timestamp_nanos()`.
naive_local_timestamp(zone, u, tu) == naive_local(zone, u) \div NsPerTick(tu)

\* The closure given to `unary` (time.rs:22-63, 68-114, 119-160): `from` is
\* parsed first, then `to`; `from_local_datetime(&ndt).unwrap()` panics on
\* a reading that is ambiguous or does not exist.
cast_timezone_value(value, tu, from, to) ==
    LET ndt == timestamp_to_datetime(value, tu)
        local == from_local_datetime(from, ndt)
    IN  IF ~parses_as_zone(from) THEN Panic("Could not parse timezone")
        ELSE IF ~parses_as_zone(to) THEN Panic("Could not parse timezone")
        ELSE IF Cardinality(local) # 1 THEN Panic("unwrap")
        ELSE Ok(naive_local_timestamp(to, SetMin(local), tu))

\* cast_timezone (time.rs:11-165): `unary` maps the closure over the values
\* buffer, null slots included, and keeps the validity.
cast_timezone(arr, tu, from, to) ==
    LET values == try_collect([k \in 1..Len(arr) |->
                                  cast_timezone_value(arr[k].v, tu, from, to)])
    IN  IF values.kind # "Ok" THEN values
        ELSE Ok([k \in 1..Len(arr) |->
                    IF arr[k].valid THEN Some(values.value[k]) ELSE None])

CastSlots(tu) ==
    {Slot(TRUE, t) : t \in ZoneInstants(tu)}
    \cup {Slot(FALSE, t) : t \in {0, (0 - 2) * (ZoneStepNs \div NsPerTick(tu))}}

CastFrame(arr, tu, from, to, result) ==
    [pc |-> "done", op |-> "cast_timezone", arr |-> arr, tu |-> tu, from |-> from,
     to |-> to, result |-> result]

CallCastTimezone ==
    /\ call.pc = "idle"
    /\ \E tu \in TimeUnits, from \in ZoneStrings, to \in ZoneStrings :
         \E arr \in UNION {[1..n -> CastSlots(tu)] : n \in 0..MaxLen} :
            call' = CastFrame(arr, tu, from, to, cast_timezone(arr, tu, from, to))
    /\ UNCHANGED range

NextCast == CallCastTimezone

SpecCast == InitRound /\ [][NextCast]_vars

(***************************************************************************)
(* Properties of the range generator.                                      *)
(***************************************************************************)
RangeDone == range.pc = "done"

PositiveInterval(d) == ~d.negative /\ ~is_zero(d)

\* The interval is a whole number d >= 1 of ticks of the unit.
WholeTicks(d, tu) ==
    /\ d.months = 0 /\ d.weeks = 0 /\ d.days = 0
    /\ d.nsecs >= NsPerTick(tu)
    /\ d.nsecs % NsPerTick(tu) = 0

\* start + i*d for i from `first`, kept while <= end (inclusive) or < end.
ExpectedRange(start, end, d, closed) ==
    LET first == IF closed \in {"Both", "Left"} THEN 0 ELSE 1
        last == IF closed \in {"Both", "Right"}
                THEN (end - start) \div d
                ELSE (end - start - 1) \div d
        n == IF last >= first THEN last - first + 1 ELSE 0
    IN  [k \in 1..n |-> start + (first + k - 1) * d]

StrictlyIncreasing(s) == \A k \in 1..(Len(s) - 1) : s[k] < s[k + 1]

\* C1: with an end, no periods, start <= end and a positive fixed interval
\* of d whole ticks, the output is exactly start + i*d from the first index
\* of the closed setting, kept while <= end (Both, Right) or < end (Left, None).
C1_ClosedWindowValues ==
    (/\ RangeDone
     /\ range.end # None /\ range.periods = None
     /\ range.start <= unwrap(range.end)
     /\ PositiveInterval(range.interval)
     /\ WholeTicks(range.interval, range.tu))
    => range.result = Ok(ExpectedRange(range.start, unwrap(range.end),
                                       duration_tu(range.interval, range.tu), range.closed))

C1_Witness ==
    /\ RangeDone
    /\ range.start = 0 /\ range.end = Some(10) /\ range.periods = None
    /\ range.closed = "Right" /\ range.tu = "us" /\ range.interval = DurationNew(2000)
    /\ range.result = Ok(<<2, 4, 6, 8, 10>>)

\* C2: with periods = N and no end, the output has exactly N elements for
\* every closed setting.
C2_PeriodsLength ==
    (/\ RangeDone
     /\ range.periods # None /\ range.end = None
     /\ range.result.kind = "Ok")
    => Len(range.result.value) = unwrap(range.periods)

\* C3: every returned sequence is strictly increasing, for any positive
\* interval, including one shorter than a tick of the time unit.
C3_StrictlyIncreasing ==
    (RangeDone /\ range.result.kind = "Ok") => StrictlyIncreasing(range.result.value)

\* C4: with an end, start > end and a positive interval, the call returns
\* Ok with an empty sequence.
C4_EmptyWhenStartAfterEnd ==
    (/\ RangeDone
     /\ range.end # None /\ range.start > unwrap(range.end)
     /\ PositiveInterval(range.interval))
    => range.result = Ok(<<>>)

C4_Witness ==
    /\ RangeDone
    /\ range.end = Some(0) /\ range.start = 2
    /\ PositiveInterval(range.interval)
    /\ range.result = Ok(<<>>)

\* C5: a negative or zero interval returns ComputeError for every start,
\* end, periods and closed setting, including start > end.
C5_NonPositiveIntervalRejected ==
    (RangeDone /\ ~PositiveInterval(range.interval))
    => range.result = Err("ComputeError")

\* C27: the number of emitted elements never exceeds the preallocation
\* estimate (or periods), so the assertion size >= ts.len() holds on every
\* return.
C27_EmittedWithinEstimate ==
    RangeDone
    => /\ range.result # Panic("DebugAssert")
       /\ range.result.kind = "Ok" => Len(range.result.value) <= range.size

\* C30: with start <= end and a positive interval of nanoseconds, also one
\* of 0 ticks in the unit, the call returns a sequence or an error value:
\* the size estimate does not divide by zero.
C30_ReturnsWithoutPanic ==
    (/\ RangeDone
     /\ range.end # None /\ range.start <= unwrap(range.end)
     /\ PositiveInterval(range.interval) /\ calendar_ticks(range.interval, range.tu) = 0)
    => range.result.kind \in {"Ok", "Err"}

\* C23: every date-only range entry point returns ComputeError when the
\* interval is not a whole number of days, and produces no range.
C23_NotFullDaysIsComputeError ==
    (/\ call.pc = "done" /\ call.op \in DateRangeOps
     /\ ~is_full_days(call.interval))
    => call.result = Err("ComputeError")

(***************************************************************************)
(* Properties of round and truncate.                                       *)
(***************************************************************************)
CallDone == call.pc = "done"

RoundOps == {"Datetime_round", "Date_round", "Duration_round"}

TruncateOps == {"Datetime_truncate", "Date_truncate", "Duration_truncate"}

\* The call has a length-1, non-null `every`.
SingleEvery == Len(call.every) = 1 /\ call.every[1] # None

TheEvery == Duration_parse(unwrap(call.every[1]))

HasNonNull(col) == \E k \in 1..Len(col) : col[k] # None

\* Row k holds a non-null instant and a non-null `every`.
BothNonNull(k) == call.col[k] # None /\ call.every[k] # None

RowEveryAt(k) == Duration_parse(unwrap(call.every[k]))

\* Datetime round takes its integer fast path.
FastPath ==
    /\ call.op = "Datetime_round" /\ SingleEvery
    /\ call.time_zone \in {None, Some("UTC")}
    /\ TheEvery.months = 0 /\ TheEvery.weeks = 0

\* C6: round and truncate fail with InvalidOperation whenever `every` is
\* zero, on every path including Datetime round's integer fast path, and
\* never panic; stated for a length-1 zero `every` and a column that holds
\* a value.
C6_ZeroEveryInvalidOperation ==
    (/\ CallDone /\ SingleEvery
     /\ is_zero(TheEvery) /\ ~TheEvery.negative
     /\ HasNonNull(call.col))
    => call.result = Err("InvalidOperation")

\* C7 as stated: round and truncate fail with ComputeError whenever any
\* non-null `every` value is negative, whether or not the instant of that
\* row is null.
C7_NegativeEveryAlwaysFails ==
    (/\ CallDone
     /\ \E k \in 1..Len(call.every) : call.every[k] # None /\ RowEveryAt(k).negative)
    => call.result = Err("ComputeError")

\* Row j fails with an error other than that of a negative `every`.
OtherErrorAt(j) ==
    /\ BothNonNull(j) /\ ~RowEveryAt(j).negative
    /\ \/ ~is_constant_duration(RowEveryAt(j), None)
       \/ duration_tu(RowEveryAt(j), call.tu) = 0
       \/ call.op = "Duration_truncate" /\ call.time_zone \notin {None, Some("UTC")}

\* C7 (amended): a negative length-1 `every` fails with ComputeError
\* whatever the column holds; on the per-row path a row with a non-null
\* instant and a negative `every` makes the call fail, with ComputeError
\* unless an earlier row fails with another error.  Duration truncate
\* checks a non-zero offset first.
C7_NegativeEveryFails ==
    (/\ CallDone
     /\ call.op = "Duration_truncate" => is_zero(Duration_parse(call.offset)))
    => /\ (SingleEvery /\ TheEvery.negative) => call.result = Err("ComputeError")
       /\ Len(call.every) # 1 =>
            \A k \in 1..Len(call.every) :
                (BothNonNull(k) /\ RowEveryAt(k).negative) =>
                    /\ call.result.kind = "Err"
                    /\ \/ call.result = Err("ComputeError")
                       \/ \E j \in 1..(k - 1) : OtherErrorAt(j)

C7_Witness ==
    /\ CallDone /\ call.op = "Duration_truncate" /\ Len(call.every) = 2
    /\ is_zero(Duration_parse(call.offset))
    /\ call.col[1] = None /\ call.every[1] # None /\ RowEveryAt(1).negative
    /\ BothNonNull(2) /\ RowEveryAt(2).negative
    /\ call.result = Err("ComputeError")

\* r is the multiple of e nearest to t, the one farther from zero on a tie.
NearestMultipleAway(t, e, r) ==
    /\ r % e = 0
    /\ 2 * Abs(r - t) <= e
    /\ 2 * Abs(r - t) = e => Abs(r) > Abs(t)

\* C8: for every t and every positive `every` e, the integer rounding
\* formula of Datetime round's fast path and of Duration round returns the
\* multiple of e nearest to t, and on a tie the one farther from zero.
C8_RoundHalfAwayFromZero ==
    (/\ CallDone
     /\ FastPath \/ call.op = "Duration_round"
     /\ ~TheEvery.negative /\ is_constant_duration(TheEvery, None)
     /\ duration_tu(TheEvery, call.tu) >= 1)
    => /\ call.result.kind = "Ok"
       /\ \A k \in 1..Len(call.col) :
            IF call.col[k] = None THEN call.result.value[k] = None
            ELSE /\ call.result.value[k] # None
                 /\ NearestMultipleAway(unwrap(call.col[k]), duration_tu(TheEvery, call.tu),
                                        unwrap(call.result.value[k]))

C8_Witness ==
    /\ CallDone /\ FastPath /\ call.tu = "us"
    /\ call.every = <<Some(DurStr(FALSE, 10, "us"))>>
    /\ call.col = <<Some(5), Some(-5)>>
    /\ call.result = Ok(<<Some(10), Some(-10)>>)

\* C9: for every t, negative ones included, and every positive constant
\* duration d with no time zone and zero offset, Datetime truncate and
\* Duration truncate return a multiple r of d with r <= t < r + d.
C9_TruncateFloors ==
    (/\ CallDone /\ call.op \in {"Datetime_truncate", "Duration_truncate"}
     /\ SingleEvery /\ ~TheEvery.negative /\ is_constant_duration(TheEvery, None)
     /\ duration_tu(TheEvery, call.tu) >= 1
     /\ is_zero(Duration_parse(call.offset)) /\ call.time_zone = None)
    => /\ call.result.kind = "Ok"
       /\ \A k \in 1..Len(call.col) :
            call.col[k] # None =>
                LET t == unwrap(call.col[k])
                    d == duration_tu(TheEvery, call.tu)
                    r == unwrap(call.result.value[k])
                IN  r <= t /\ t < r + d /\ r % d = 0

\* Two outcomes agree: the same column, or an error in both.
SameOutcome(a, b) ==
    \/ a.kind = "Ok" /\ b.kind = "Ok" /\ a.value = b.value
    \/ a.kind = "Err" /\ b.kind = "Err"

\* C10: on a naive or UTC column and a constant `every`, the integer fast
\* path of Datetime round and the per-row path with that `every` in every
\* row give the same outcome: the same values and null rows, or an error in
\* both; stated for columns that hold a value.
C10_FastPathEqualsPerRow ==
    (CallDone /\ FastPath /\ HasNonNull(call.col))
    => SameOutcome(call.result,
                   Datetime_round_per_row(call.col,
                                          [k \in 1..Len(call.col) |-> call.every[1]],
                                          call.tu))

(***************************************************************************)
(* Properties of date_offset.                                              *)
(***************************************************************************)
OffsetDone == call.pc = "done" /\ call.op = "date_offset" /\ call.dtype = "Datetime"

\* The offsets column holds the same non-null string in every row.
SameOffsetEveryRow ==
    /\ Len(call.offsets) >= 2
    /\ \A k \in 1..Len(call.offsets) :
          call.offsets[k].valid /\ call.offsets[k].v = call.offsets[1].v

\* C11: a per-row offsets column whose rows all hold the same duration
\* string gives the same output values as that one string passed as a
\* length-1 offsets column, for every time unit and time zone.
C11_PerRowEqualsSingle ==
    (OffsetDone /\ SameOffsetEveryRow)
    => LET single == date_offset(call.ca, <<call.offsets[1]>>, call.tu, call.time_zone,
                                 call.sorted)
       IN  /\ call.result.kind = "Ok" /\ single.kind = "Ok"
           /\ call.result.value.values = single.value.values

\* C12: in a per-row path a row whose instant or whose duration operand is
\* null gives a null output row and never makes the call fail; stated for
\* the per-row path of date_offset.
C12_NullRowNeverFails ==
    (OffsetDone /\ Len(call.offsets) # 1)
    => \A k \in 1..Len(call.ca) :
          (~call.ca[k].valid \/ ~call.offsets[k].valid)
          => /\ call.result.kind = "Ok"
             /\ call.result.value.values[k] = None

\* C14: a length-1 offsets column whose single value is null gives an
\* all-null column of the input's length.
C14_NullOffsetAllNull ==
    (OffsetDone /\ Len(call.offsets) = 1 /\ ~call.offsets[1].valid)
    => /\ call.result.kind = "Ok"
       /\ call.result.value.values = full_null(Len(call.ca))

(***************************************************************************)
(* Properties of a null length-1 parameter.                                *)
(***************************************************************************)
ZoneDone == call.pc = "done" /\ call.op = "replace_time_zone"

\* The call's length-1 `every` (round, truncate) or `ambiguous`
\* (replace_time_zone) is null.
NullScalarParam ==
    /\ CallDone
    /\ \/ /\ call.op \in RoundOps \cup TruncateOps
          /\ Len(call.every) = 1 /\ call.every[1] = None
       \/ /\ call.op = "replace_time_zone"
          /\ Len(call.ambiguous) = 1 /\ call.ambiguous[1] = None

AllNullOutput ==
    /\ call.result.kind = "Ok"
    /\ IF call.op = "replace_time_zone"
       THEN call.result.value.values = full_null(Len(call.col))
       ELSE call.result.value = full_null(Len(call.col))

\* The parameters that are validated before the null parameter is looked
\* at: the offset of a Duration truncate, the zones of replace_time_zone.
PassesValidation ==
    /\ call.op = "Duration_truncate" => is_zero(Duration_parse(call.offset))
    /\ call.op = "replace_time_zone"
       => /\ unwrap_or(call.tz, "UTC") \in NamedZones
          /\ unwrap_or(call.time_zone, "UTC") \in NamedZones

FromZone == unwrap_or(call.tz, "UTC")

ToZone == unwrap_or(call.time_zone, "UTC")

ZonesParse == FromZone \in NamedZones /\ ToZone \in NamedZones

ScalarPolicy == Len(call.ambiguous) = 1 /\ call.ambiguous[1] # None

\* The policy that applies to row k.
PolicyAt(k) == IF Len(call.ambiguous) = 1 THEN call.ambiguous[1] ELSE call.ambiguous[k]

\* The local clock reading of row k in the column's zone.
RowReading(k) == naive_local(FromZone, timestamp_to_datetime(unwrap(call.col[k]), call.tu))

\* Row k's reading is in a fold or a gap of the target zone.
Unresolved(k) ==
    call.col[k] # None /\ Cardinality(from_local_datetime(ToZone, RowReading(k))) # 1

\* Every reading of the column is unambiguous and existent in its own zone.
ReadingsUnambiguous ==
    \A k \in 1..Len(call.col) :
       call.col[k] # None => Cardinality(from_local_datetime(FromZone, RowReading(k))) = 1

C16_NullPolicyNullsRow ==
    (/\ ZoneDone /\ ZonesParse
     /\ \A k \in 1..Len(call.col) : PolicyAt(k) = Some("null"))
    => /\ call.result.kind = "Ok"
       /\ \A k \in 1..Len(call.col) :
             (call.result.value.values[k] = None) <=> (call.col[k] = None \/ Unresolved(k))

\* C17: a call with a per-row policy column does not carry the input's
\* sorted flag over to the output.
C17_PerRowDropsFlag ==
    (/\ ZoneDone /\ Len(call.ambiguous) # 1 /\ call.result.kind = "Ok"
     /\ Len(call.col) >= 2
     /\ \A k \in 1..Len(call.col) : call.col[k] # None /\ call.ambiguous[k] # None)
    => call.result.value.sorted = "Not"

\* C18: a call with a single policy on a column in ascending order returns
\* values in non-decreasing order, for every source and target zone.
C18_ScalarPolicyKeepsOrder ==
    (ZoneDone /\ Len(call.ambiguous) = 1 /\ call.sorted = "Ascending"
     /\ call.result.kind = "Ok")
    => Ascending(call.result.value.values)

\* C19: when the column's zone or the target zone does not parse, the call
\* returns a ComputeError that carries the offending string, whatever the
\* column holds, and no output column.
C19_UnparseableZoneFails ==
    (ZoneDone /\ ~ZonesParse)
    => call.result = ErrWith("ComputeError",
                             IF FromZone \notin NamedZones THEN FromZone ELSE ToZone)

C19_Witness ==
    /\ ZoneDone /\ call.tz = Some("Europe/Amsterdam") /\ call.time_zone = Some("foo")
    /\ call.col = <<None, None>>
    /\ call.result = ErrWith("ComputeError", "foo")

(***************************************************************************)
(* Properties of cast_timezone.                                            *)
(***************************************************************************)
CastDone == call.pc = "done" /\ call.op = "cast_timezone"

\* C20: when `from` or `to` parses neither as a named zone nor as a fixed
\* offset, cast_timezone returns a ComputeError as an error value, not a
\* panic, for every input array including an empty one.
C20_UnparseableZoneIsError ==
    (CastDone /\ (~parses_as_zone(call.from) \/ ~parses_as_zone(call.to)))
    => call.result = Err("ComputeError")

\* Both zone strings parse and no slot of the array is null.
CastParses == parses_as_zone(call.from) /\ parses_as_zone(call.to)

AllValid == \A k \in 1..Len(call.arr) : call.arr[k].valid

\* The clock reading held by slot k.
SlotReading(k) == timestamp_to_datetime(call.arr[k].v, call.tu)

\* C21: a value whose reading is ambiguous or non-existent in `from` is
\* resolved by a policy and never aborts the program through an unwrap.
C21_NoUnwrapPanic ==
    (CastDone /\ CastParses /\ AllValid) => call.result.kind # "Panic"

\* Row k of the output is the reading in `to` of an instant whose reading
\* in `from` is the input value: v - offset_from + offset_to in the unit.
LocalToLocal(k) ==
    \E u \in from_local_datetime(call.from, SlotReading(k)) :
       call.result.value[k] =
          Some((SlotReading(k) - utc_offset(call.from, u) + utc_offset(call.to, u))
               \div NsPerTick(call.tu))

\* C22: for every value and every pair of parseable zones the output is
\* v - offset_from + offset_to at the value's instant, in every unit.
C22_LocalToLocal ==
    (CastDone /\ CastParses /\ AllValid)
    => /\ call.result.kind = "Ok"
       /\ \A k \in 1..Len(call.arr) : LocalToLocal(k)

\* The same for arrays whose readings are all unambiguous and existent in
\* `from`, where the unwrap cannot panic.
LocalToLocalOnUnambiguousReadings ==
    (/\ CastDone /\ CastParses
     /\ \A k \in 1..Len(call.arr) :
           Cardinality(from_local_datetime(call.from, SlotReading(k))) = 1)
    => /\ call.result.kind = "Ok"
       /\ \A k \in 1..Len(call.arr) : call.arr[k].valid => LocalToLocal(k)

(***************************************************************************)
(* Properties of error propagation.                                        *)
(***************************************************************************)
\* The row of a parameter column that applies to row k.
ParamRow(param, k) == IF Len(param) = 1 THEN 1 ELSE k

\* The outcome of the element operation of round or truncate on row k.
EveryRowOutcome(k) ==
    LET t == call.col[k]
        e == call.every[ParamRow(call.every, k)]
    IN  CASE call.op = "Datetime_round" -> Datetime_round_row(t, e, call.tu)
          [] call.op = "Date_round" -> Date_round_row(t, e)
          [] call.op = "Datetime_truncate" ->
                Datetime_truncate_row(t, e, Duration_parse(call.offset), call.tu)
          [] call.op = "Date_truncate" -> Date_truncate_row(t, e, Duration_parse(call.offset))

\* Row k has both operands non-null and its element operation returns an
\* error.
ElementFails(k) ==
    CASE call.op \in {"Datetime_round", "Date_round", "Datetime_truncate", "Date_truncate"} ->
            /\ ~FastPath
            /\ call.col[k] # None /\ call.every[ParamRow(call.every, k)] # None
            /\ EveryRowOutcome(k).kind = "Err"
      [] call.op = "replace_time_zone" ->
            /\ ZonesParse
            /\ call.col[k] # None /\ PolicyAt(k) # None
            /\ replace_value(FromZone, ToZone, unwrap(call.col[k]), unwrap(PolicyAt(k)),
                             call.tu).kind = "Err"
      [] call.op = "date_offset" ->
            LET r == call.offsets[ParamRow(call.offsets, k)]
            IN  /\ call.dtype = "Datetime"
                /\ call.ca[k].valid /\ r.valid /\ ~is_malformed(r.v)
                /\ (IF Len(call.offsets) = 1
                    THEN offset_fn(Duration_parse(r.v), call.ca[k].v, call.tu, call.time_zone)
                    ELSE compute_kernel2_value(call.ca[k].v, r.v)).kind = "Err"
      [] OTHER -> FALSE

CallRows == IF call.op = "date_offset" THEN 1..Len(call.ca) ELSE 1..Len(call.col)

\* C24: in round, truncate, replace_time_zone and date_offset, when the
\* element operation returns an error on a row whose operands are both
\* non-null, the call returns an error and no output column; stated for
\* round and truncate on Datetime and Date columns.
C24_FailFast ==
    (/\ CallDone
     /\ call.op \in {"Datetime_round", "Date_round", "Datetime_truncate", "Date_truncate",
                     "replace_time_zone", "date_offset"}
     /\ \E k \in CallRows : ElementFails(k))
    => /\ call.result.kind = "Err"
       /\ "value" \notin DOMAIN call.result

\* A per-row truncate whose first row is computed and whose second row
\* fails.
C24_Witness ==
    /\ CallDone /\ call.op = "Datetime_truncate" /\ Len(call.every) = 2
    /\ ~ElementFails(1) /\ BothNonNull(1) /\ ElementFails(2)
    /\ call.result = Err("InvalidOperation")

\* The same in date_offset: a day added to a reading lands in the gap.
DateOffsetFails ==
    /\ CallDone /\ call.op = "date_offset" /\ Len(call.ca) = 2
    /\ ~ElementFails(1) /\ call.ca[1].valid /\ ElementFails(2)
    /\ call.result = Err("ComputeError")

(***************************************************************************)
(* Properties of round and truncate on a Duration column.                  *)
(***************************************************************************)
DurationDone == CallDone /\ call.op \in {"Duration_round", "Duration_truncate"}

NonZeroOffset == call.op = "Duration_truncate" /\ ~is_zero(Duration_parse(call.offset))

\* The length-1 `every` of the call is not a constant duration.
NonConstantEvery ==
    /\ SingleEvery
    /\ ~is_constant_duration(Duration_parse(unwrap(call.every[1])), call.time_zone)

\* C25 as stated: truncating a Duration column with a non-zero offset, and
\* rounding or truncating one with an `every` that is not a constant
\* duration, returns InvalidOperation and no value.
C25_NonConstantAlwaysInvalidOperation ==
    (DurationDone /\ (NonZeroOffset \/ NonConstantEvery))
    => call.result = Err("InvalidOperation")

\* Row k holds a non-null duration and a non-null `every` that is not
\* negative and not a constant duration.
NonConstantRow(k) ==
    /\ BothNonNull(k)
    /\ ~RowEveryAt(k).negative
    /\ ~is_constant_duration(RowEveryAt(k), call.time_zone)

\* Row k holds a non-null duration and a negative `every`.
NegativeRow(k) == BothNonNull(k) /\ RowEveryAt(k).negative

\* C25 amended: a non-zero offset of a Duration truncate is an
\* InvalidOperation whatever `every` and the column hold; with a zero
\* offset, a length-1 `every` that is not negative and not constant is an
\* InvalidOperation, and a per-row `every` with such a value in a row whose
\* duration is non-null makes the call fail, with InvalidOperation when no
\* such row holds a negative `every`.  No value is returned.
C25_NonConstantInvalidOperation ==
    DurationDone
    => /\ NonZeroOffset => call.result = Err("InvalidOperation")
       /\ (~NonZeroOffset /\ NonConstantEvery /\ ~TheEvery.negative)
          => call.result = Err("InvalidOperation")
       /\ (~NonZeroOffset /\ Len(call.every) # 1
           /\ \E k \in 1..Len(call.col) : NonConstantRow(k))
          => /\ call.result \in {Err("InvalidOperation"), Err("ComputeError")}
             /\ (\A k \in 1..Len(call.col) : ~NegativeRow(k))
                => call.result = Err("InvalidOperation")

\* A Duration truncate with a non-zero offset, a valid `every` and a
\* non-null duration.
C25_Witness ==
    /\ DurationDone /\ NonZeroOffset /\ HasNonNull(call.col)
    /\ SingleEvery /\ ~TheEvery.negative
    /\ is_constant_duration(TheEvery, call.time_zone)
    /\ duration_tu(TheEvery, call.tu) > 0
    /\ call.result = Err("InvalidOperation")

\* A Duration round with a calendar `every`.
CalendarEveryRejected ==
    /\ DurationDone /\ call.op = "Duration_round" /\ HasNonNull(call.col)
    /\ NonConstantEvery /\ ~TheEvery.negative
    /\ call.result = Err("InvalidOperation")

(***************************************************************************)
(* Properties of datetime().                                               *)
(***************************************************************************)
DatetimeDone == CallDone /\ call.op = "datetime"

\* Row k of the broadcast input columns.
ComponentRow(k) ==
    [c \in 1..7 |-> broadcast(call.s[c], SeqMax({Len(call.s[d]) : d \in 1..7}))[k]]

\* Row k has no null component and its components form no civil date-time.
OutOfRange(k) ==
    LET row == ComponentRow(k)
    IN  /\ \A c \in 1..7 : row[c] # None
        /\ \/ unwrap(row[2]) \notin 1..12
           \/ unwrap(row[3]) \notin 1..days_in_month(unwrap(row[1]), unwrap(row[2]))
           \/ unwrap(row[4]) > 23 \/ unwrap(row[5]) > 59 \/ unwrap(row[6]) > 59

\* C26: datetime() fails with ComputeError when the non-null components
\* of a row form no valid civil date-time, and returns neither a value
\* nor a null for that row.
C26_OutOfRangeIsComputeError ==
    (DatetimeDone /\ \E k \in 1..Len(call.s[1]) : OutOfRange(k))
    => call.result = Err("ComputeError")

(***************************************************************************)
(* Properties of the sorted flag of date_offset.                           *)
(***************************************************************************)
AnyOffsetDone == CallDone /\ call.op = "date_offset" /\ call.result.kind = "Ok"

\* The single offset of the call, a null one being Duration::new(0).
TheOffset ==
    IF call.offsets[1].valid THEN Duration_parse(call.offsets[1].v) ELSE DurationNew(0)

\* The condition under which the flag may be carried over.
MayCarryFlag ==
    /\ Len(call.offsets) = 1
    /\ \/ call.time_zone = None \/ call.time_zone = Some("UTC")
       \/ is_constant_duration(TheOffset, None)

\* C28: the output of date_offset carries a sorted flag only when the
\* offsets column has length 1 and the column is naive or UTC or the offset
\* is a constant duration, never with per-row offsets, for Datetime and for
\* Date inputs; an output flagged sorted has its values in that order.
C28_FlagCarriedOnlyWhenOrderKept ==
    (AnyOffsetDone /\ call.result.value.sorted # "Not")
    => /\ MayCarryFlag
       /\ call.result.value.sorted \in TruthfulFlags(call.result.value.values)

\* The same for Datetime inputs alone.
DatetimeFlagCarriedOnlyWhenOrderKept ==
    (AnyOffsetDone /\ call.dtype = "Datetime" /\ call.result.value.sorted # "Not")
    => /\ MayCarryFlag
       /\ call.result.value.sorted \in TruthfulFlags(call.result.value.values)

(***************************************************************************)
(* Properties of the duration cache of round.                              *)
(***************************************************************************)
PerRowRoundDone ==
    CallDone /\ call.op \in {"Datetime_round", "Date_round"} /\ Len(call.every) # 1

\* The distinct non-null strings of the `every` column.
DistinctEvery == {unwrap(call.every[k]) : k \in {j \in 1..Len(call.every) : call.every[j] # None}}

\* How many times the string was handed to Duration::parse.
TimesParsed(str) == Cardinality({i \in 1..Len(call.parsed) : call.parsed[i] = str})

\* C29: in a per-row round call whose distinct `every` strings fit the
\* cache, each string is parsed at most once, for Datetime and for Date
\* round, and every duration used equals a fresh parse of its string.
C29_ParsedAtMostOnce ==
    (PerRowRoundDone /\ Cardinality(DistinctEvery) <= sqrt_floor(Len(call.every)))
    => /\ \A str \in DistinctEvery : TimesParsed(str) <= 1
       /\ \A i \in 1..Len(call.used) :
             call.used[i].duration = Duration_parse(call.used[i].every)

\* The same for Datetime round alone.
DatetimeParsedAtMostOnce ==
    (PerRowRoundDone /\ call.op = "Datetime_round"
     /\ Cardinality(DistinctEvery) <= sqrt_floor(Len(call.every)))
    => /\ \A str \in DistinctEvery : TimesParsed(str) <= 1
       /\ \A i \in 1..Len(call.used) :
             call.used[i].duration = Duration_parse(call.used[i].every)

====
